---- MODULE Spec2Model ----
(***************************************************************************)
(* A model of src/page.rs: the page-aligned, page-sized value type Page,   *)
(* its constructors, its byte views and Page::copy.                        *)
(*                                                                         *)
(* Memory is modelled in bytes.  The field [[u64; 32]; 16] is Rows rows of *)
(* Cols words, each word being the WordSize bytes it occupies in memory,   *)
(* in address order.  A typed value is its type (size, alignment) and the  *)
(* bytes of its object representation.  A u32 is written as its four       *)
(* base-256 digits, most significant first, and laid out in memory in the  *)
(* platform's byte order.                                                  *)
(***************************************************************************)
EXTENDS Integers, Sequences, FiniteSets, TLC

VARIABLES endian, loc, mem, origin, pc, frame, last, writes

vars == <<endian, loc, mem, origin, pc, frame, last, writes>>

(***************************************************************************)
(* Bounds of the model.                                                    *)
(***************************************************************************)
\* the number of writes through a mutable byte view in one behaviour
MaxWrites == 2

(***************************************************************************)
(* Layout of Page.                                                         *)
(***************************************************************************)
\* #[repr(C, align(4096))]
PageAlign == 4096
\* [[u64; 32]; 16]: 16 rows
Rows == 16
\* [[u64; 32]; 16]: 32 words in a row
Cols == 32
\* size and alignment of u64, in bytes
WordSize == 8

Max(a, b) == IF a >= b THEN a ELSE b

RoundUp(n, a) == ((n + a - 1) \div a) * a

\* size_of::<[[u64; 32]; 16]>()
StorageSize == Rows * Cols * WordSize

\* align_of::<Page>(): the larger of the field's alignment and align(4096)
AlignOfPage == Max(WordSize, PageAlign)

\* size_of::<Page>(): the field's size rounded up to the alignment
SizeOfPage == RoundUp(StorageSize, AlignOfPage)

\* Page::size()
Size == SizeOfPage

(***************************************************************************)
(* Constructors.                                                           *)
(***************************************************************************)
\* <Page as ConstDefault>::DEFAULT (feature const-default)
ConstDefaultPage == [r \in 1..Rows |-> [c \in 1..Cols |-> [b \in 1..WordSize |-> 0]]]

DefaultPageNonZero == [r \in 1..Rows |-> [c \in 1..Cols |-> [b \in 1..WordSize |-> IF r = Rows /\ c = Cols /\ b = WordSize THEN 1 ELSE 0]]]

\* <Page as Default>::default()
DefaultPage == [r \in 1..Rows |-> [c \in 1..Cols |-> [b \in 1..WordSize |-> 0]]]

\* Page::zeroed()
ZeroedPage == [r \in 1..Rows |-> [c \in 1..Cols |-> [b \in 1..WordSize |-> 0]]]

(***************************************************************************)
(* slice::align_to / align_to_mut, on a slice of n elements of size tsize  *)
(* starting at address addr, viewed as elements of size usize and          *)
(* alignment ualign: (prefix, middle, suffix).  A zero-sized element type *)
(* on either side, or a slice too short to reach an aligned address, puts  *)
(* the whole slice in the prefix.                                          *)
(***************************************************************************)
\* the bytes from addr to the next address aligned for U
AlignOffset(addr, ualign) == (ualign - (addr % ualign)) % ualign

\* the length, in bytes, of .0, the prefix
AlignToPrefix(addr, tsize, n, usize, ualign) ==
    IF usize = 0 \/ tsize = 0 \/ AlignOffset(addr, ualign) > tsize * n
    THEN tsize * n
    ELSE AlignOffset(addr, ualign)

\* the length, in elements of U, of .1, the middle
AlignToMiddle(addr, tsize, n, usize, ualign) ==
    IF usize = 0 \/ tsize = 0 \/ AlignOffset(addr, ualign) > tsize * n
    THEN 0
    ELSE (tsize * n - AlignOffset(addr, ualign)) \div usize

\* the byte at offset k (from 0) of the field's memory
ByteAt(st, k) ==
    st[(k \div (Cols * WordSize)) + 1][((k \div WordSize) % Cols) + 1][(k % WordSize) + 1]

\* the field's memory with the byte at offset k (from 0) set to b
SetByteAt(st, k, b) ==
    [st EXCEPT ![(k \div (Cols * WordSize)) + 1][((k \div WordSize) % Cols) + 1][(k % WordSize) + 1] = b]

AsRefLenPrefix(addr) == AlignToPrefix(addr, Cols * WordSize, Rows, 1, 1)

\* the length of the slice <Page as AsRef<[u8]>>::as_ref returns:
\* that of self.0.align_to().1
AsRefLen(addr) == AlignToMiddle(addr, Cols * WordSize, Rows, 1, 1)

\* element i (from 1) of the slice as_ref returns
AsRefAt(st, addr, i) ==
    ByteAt(st, AlignToPrefix(addr, Cols * WordSize, Rows, 1, 1) + i - 1)

\* <Page as AsRef<[u8]>>::as_ref: self.0.align_to().1
AsRef(st, addr) == [i \in 1..AsRefLen(addr) |-> AsRefAt(st, addr, i)]

\* the length of the slice <Page as AsMut<[u8]>>::as_mut returns
AsMutLen(addr) == AlignToMiddle(addr, Cols * WordSize, Rows, 1, 1)

AsMutWriteDetached(st, addr, i, b) == st

\* as_mut()[i] = b: the store goes to the page's own memory
AsMutWrite(st, addr, i, b) ==
    SetByteAt(st, AlignToPrefix(addr, Cols * WordSize, Rows, 1, 1) + i, b)

(***************************************************************************)
(* Types and values handed to Page::copy.  A type is its size and its      *)
(* alignment; the language makes every alignment a power of two and every  *)
(* size a multiple of the alignment.                                       *)
(***************************************************************************)
Type(size, align) == [size |-> size, align |-> align]

\* ()
Unit == Type(0, 1)

U32 == Type(4, 4)

\* [u8; size_of::<Page>()]
PageBytes == Type(SizeOfPage, 1)

\* [u8; size_of::<Page>() + 1]
PageBytesPlus1 == Type(SizeOfPage + 1, 1)

\* #[repr(align(4096))] struct of one page
PageAligned == Type(SizeOfPage, AlignOfPage)

\* #[repr(align(8192))] struct holding data
OverAligned == Type(2 * AlignOfPage, 2 * AlignOfPage)

\* [OverAligned; 0]
OverAlignedZst == Type(0, 2 * AlignOfPage)

Types == {Unit, U32, PageBytes, PageBytesPlus1, PageAligned, OverAligned, OverAlignedZst}

\* 0xDEADBEEF, as base-256 digits, most significant first
DeadBeef == <<222, 173, 190, 239>>

Fills(T) == IF T = U32 THEN {"deadbeef"} ELSE {"ramp"}

Values == {v \in [type : Types, fill : {"ramp", "deadbeef"}] : v.fill \in Fills(v.type)}

Reverse(s) == [i \in 1..Len(s) |-> s[Len(s) + 1 - i]]

\* u32::to_ne_bytes on the digits of a number
ToNeBytes(digits, e) == IF e = "big" THEN digits ELSE Reverse(digits)

\* u32::from_ne_bytes, giving the digits of the number
FromNeBytes(bytes, e) == IF e = "big" THEN bytes ELSE Reverse(bytes)

\* byte i (from 1) of the object representation of a value; none is zero
ValueByte(v, e, i) ==
    IF v.fill = "deadbeef"
    THEN ToNeBytes(DeadBeef, e)[i]
    ELSE ((i - 1) % 255) + 1

(***************************************************************************)
(* Page::copy.                                                             *)
(***************************************************************************)
CopyFailureStrictSize(T) ==
    IF ~(SizeOfPage > T.size) THEN "SizeExceeded"
    ELSE IF ~(AlignOfPage >= T.align) THEN "AlignmentExceeded"
    ELSE IF ~(AlignOfPage % T.align = 0) THEN "AlignmentNotDivisible"
    ELSE "none"

CopyFailureNoAlignBound(T) ==
    IF ~(SizeOfPage >= T.size) THEN "SizeExceeded"
    ELSE IF ~(AlignOfPage % T.align = 0) THEN "AlignmentNotDivisible"
    ELSE "none"

CopyFailureAlignFirst(T) ==
    IF ~(AlignOfPage >= T.align) THEN "AlignmentExceeded"
    ELSE IF ~(SizeOfPage >= T.size) THEN "SizeExceeded"
    ELSE IF ~(AlignOfPage % T.align = 0) THEN "AlignmentNotDivisible"
    ELSE "none"

\* the three assertions of copy, in order: the first that fails, or "none"
CopyFailure(T) ==
    IF ~(SizeOfPage >= T.size) THEN "SizeExceeded"
    ELSE IF ~(AlignOfPage >= T.align) THEN "AlignmentExceeded"
    ELSE IF ~(AlignOfPage % T.align = 0) THEN "AlignmentNotDivisible"
    ELSE "none"

StoreTypedShifted(st, off, v, e) ==
    [r \in 1..Rows |-> [c \in 1..Cols |-> [b \in 1..WordSize |->
        LET k == ((r - 1) * Cols + (c - 1)) * WordSize + (b - 1)
        IN  IF k >= off /\ k < off + v.type.size
            THEN ValueByte(v, e, ((k - off + 1) % v.type.size) + 1)
            ELSE st[r][c][b]]]]

\* typed[0] = value: the value's bytes go to offsets off .. off + size - 1
StoreTyped(st, off, v, e) ==
    [r \in 1..Rows |-> [c \in 1..Cols |-> [b \in 1..WordSize |->
        LET k == ((r - 1) * Cols + (c - 1)) * WordSize + (b - 1)
        IN  IF k >= off /\ k < off + v.type.size
            THEN ValueByte(v, e, k - off + 1)
            ELSE st[r][c][b]]]]

\* the body of copy after its assertions, on the local array at address addr:
\* the local array and the panic of the indexing typed[0], if any
CopyBody(v, e, addr) ==
    LET pages  == <<DefaultPage>>
        \* bytes: pages.align_to_mut::<u8>().1, at byteOff in the array
        byteOff  == AlignToPrefix(addr, SizeOfPage, Len(pages), 1, 1)
        byteLen  == AlignToMiddle(addr, SizeOfPage, Len(pages), 1, 1)
        \* typed: bytes.align_to_mut::<T>().1, at typedOff in bytes
        typedOff == AlignToPrefix(addr + byteOff, 1, byteLen, v.type.size, v.type.align)
        typedLen == AlignToMiddle(addr + byteOff, 1, byteLen, v.type.size, v.type.align)
    IN  IF typedLen = 0
        THEN [pages |-> pages, err |-> "IndexOutOfBounds"]
        ELSE [pages |-> <<StoreTyped(pages[1], byteOff + typedOff, v, e)>>,
              err   |-> "none"]

(***************************************************************************)
(* The state: two variables of type Page held by a caller (each a let      *)
(* binding, initialised once), the memory they occupy, and the activation  *)
(* of copy.                                                                *)
(***************************************************************************)
Slots == {"p", "q"}

NoAddr == 0

\* the address of a caller's variable: a multiple of align_of::<Page>()
SlotAddr(s) == IF s = "p" THEN AlignOfPage ELSE 2 * AlignOfPage

\* the address of copy's local array
FrameAddr == 3 * AlignOfPage

Addrs == {SlotAddr(s) : s \in Slots}

NoPage == <<>>

NoSlot == "none"

WriteIdx == {0, Size - 1}

WriteBytes == {165}

NoValue == [type |-> [size |-> 0, align |-> 1], fill |-> "none"]

NoFrame == [T |-> NoValue.type, value |-> NoValue, pages |-> <<>>, err |-> "none"]

Op(op, slot, idx, byte, val) ==
    [op |-> op, slot |-> slot, idx |-> idx, byte |-> byte, val |-> val]

Live(s) == loc[s] # NoAddr

\* the byte view of the Page in variable s
View(s) == AsRef(mem[loc[s]], loc[s])

\* byte i (from 1) of the byte view of the Page in variable s
ViewAt(s, i) == AsRefAt(mem[loc[s]], loc[s], i)

Init ==
    /\ endian \in {"little", "big"}
    /\ loc = [s \in Slots |-> NoAddr]
    /\ mem = [a \in Addrs |-> NoPage]
    /\ origin = [s \in Slots |-> NoSlot]
    /\ pc = "idle"
    /\ frame = NoFrame
    /\ last = Op("init", NoSlot, 0, 0, NoValue)
    /\ writes = 0

\* let s = page: the variable s holds the bytes of page, in its own memory
Bind(s, page, from) ==
    /\ ~Live(s)
    /\ loc' = [loc EXCEPT ![s] = SlotAddr(s)]
    /\ mem' = [mem EXCEPT ![SlotAddr(s)] = page]
    /\ origin' = [origin EXCEPT ![s] = from]

Zeroed(s) ==
    /\ pc = "idle"
    /\ Bind(s, ZeroedPage, NoSlot)
    /\ last' = Op("zeroed", s, 0, 0, NoValue)
    /\ UNCHANGED <<endian, pc, frame, writes>>

Default(s) ==
    /\ pc = "idle"
    /\ Bind(s, DefaultPage, NoSlot)
    /\ last' = Op("default", s, 0, 0, NoValue)
    /\ UNCHANGED <<endian, pc, frame, writes>>

ConstDefault(s) ==
    /\ pc = "idle"
    /\ Bind(s, ConstDefaultPage, NoSlot)
    /\ last' = Op("const_default", s, 0, 0, NoValue)
    /\ UNCHANGED <<endian, pc, frame, writes>>

ValueCopyShared(s, d) ==
    /\ pc = "idle"
    /\ s # d
    /\ Live(s)
    /\ ~Live(d)
    /\ loc' = [loc EXCEPT ![d] = loc[s]]
    /\ origin' = [origin EXCEPT ![d] = s]
    /\ last' = Op("value_copy", d, 0, 0, NoValue)
    /\ UNCHANGED <<endian, mem, pc, frame, writes>>

\* let d = s, for Page: Copy: all the bytes are duplicated
ValueCopy(s, d) ==
    /\ pc = "idle"
    /\ s # d
    /\ Live(s)
    /\ Bind(d, mem[loc[s]], s)
    /\ last' = Op("value_copy", d, 0, 0, NoValue)
    /\ UNCHANGED <<endian, pc, frame, writes>>

\* s.as_mut()[i] = b
Write(s, i, b) ==
    /\ pc = "idle"
    /\ writes < MaxWrites
    /\ Live(s)
    /\ i < AsMutLen(loc[s])
    /\ mem' = [mem EXCEPT ![loc[s]] = AsMutWrite(mem[loc[s]], loc[s], i, b)]
    /\ writes' = writes + 1
    /\ last' = Op("write", s, i, b, NoValue)
    /\ UNCHANGED <<endian, loc, origin, pc, frame>>

CopyAssertLate(v) ==
    /\ pc = "idle"
    /\ frame' = [T     |-> v.type,
                 value |-> v,
                 pages |-> CopyBody(v, endian, FrameAddr).pages,
                 err   |-> CopyFailure(v.type)]
    /\ pc' = IF CopyFailure(v.type) = "none" THEN "checked" ELSE "panicked"
    /\ last' = Op("copy_call", NoSlot, 0, 0, v)
    /\ \E d \in Slots : ~Live(d)
    /\ UNCHANGED <<endian, loc, mem, origin, writes>>

\* Page::copy(v), up to and including its three assertions
CopyAssert(v) ==
    /\ pc = "idle"
    /\ frame' = [T |-> v.type, value |-> v, pages |-> <<>>, err |-> CopyFailure(v.type)]
    /\ pc' = IF CopyFailure(v.type) = "none" THEN "checked" ELSE "panicked"
    /\ last' = Op("copy_call", NoSlot, 0, 0, v)
    /\ \E d \in Slots : ~Live(d)
    /\ UNCHANGED <<endian, loc, mem, origin, writes>>

\* the local array, the two align_to_mut views and typed[0] = value
CopyStore ==
    /\ pc = "checked"
    /\ LET r == CopyBody(frame.value, endian, FrameAddr)
       IN  /\ frame' = [frame EXCEPT !.pages = r.pages, !.err = r.err]
           /\ pc' = IF r.err = "none" THEN "stored" ELSE "panicked"
    /\ UNCHANGED <<endian, loc, mem, origin, last, writes>>

\* pages[0] is returned and bound to the caller's variable d
CopyReturn(d) ==
    /\ pc = "stored"
    /\ Bind(d, frame.pages[1], NoSlot)
    /\ last' = Op("copy", d, 0, 0, frame.value)
    /\ pc' = "idle"
    /\ frame' = NoFrame
    /\ UNCHANGED <<endian, writes>>

Next ==
    \/ \E s \in Slots : Zeroed(s)
    \/ \E s \in Slots : Default(s)
    \/ \E s \in Slots : ConstDefault(s)
    \/ \E s \in Slots, d \in Slots : ValueCopy(s, d)
    \/ \E s \in Slots, i \in WriteIdx, b \in WriteBytes : Write(s, i, b)
    \/ \E v \in Values : CopyAssert(v)
    \/ CopyStore
    \/ \E d \in Slots : CopyReturn(d)

Spec == Init /\ [][Next]_vars

(***************************************************************************)
(* Properties.                                                             *)
(***************************************************************************)
PreconditionFailures == {"SizeExceeded", "AlignmentExceeded", "AlignmentNotDivisible"}

\* the three documented constraints of copy
Preconditions(T) ==
    /\ T.size <= SizeOfPage
    /\ T.align <= AlignOfPage
    /\ AlignOfPage % T.align = 0

\* a step that is a write through the mutable byte view
IsWriteStep == last'.op = "write" /\ writes' = writes + 1

\* C1: every Page, however it was made (zeroed, default, copy, value copy,
\* then written through its mutable view), has byte views of exactly
\* Page::size() bytes, and Page::size() is 4096.
C1_ViewLength ==
    /\ Size = 4096
    /\ \A s \in Slots : Live(s) =>
          /\ AsRefLen(loc[s]) = Size
          /\ AsMutLen(loc[s]) = Size
    /\ pc = "stored" => AsRefLen(FrameAddr) = Size

C1_Witness ==
    /\ Live("p") /\ Live("q")
    /\ origin["q"] = "p"
    /\ last.op = "write"
    /\ \E i \in 1..4 : ViewAt("p", i) = DeadBeef[1]

\* C2: zeroed(), default() and ConstDefault::DEFAULT each give a Page whose
\* byte view is 0 at every index below size(), and the three are
\* byte-identical.
C2_ZeroConstructors ==
    last.op \in {"zeroed", "default", "const_default"} =>
        LET a == loc[last.slot]
        IN  /\ Live(last.slot)
            /\ \A i \in 1..Size : i <= AsRefLen(a) /\ ViewAt(last.slot, i) = 0
            /\ View(last.slot) = AsRef(ZeroedPage, a)
            /\ AsRef(ZeroedPage, a) = AsRef(DefaultPage, a)
            /\ AsRef(DefaultPage, a) = AsRef(ConstDefaultPage, a)

C2_Witness ==
    /\ last.op = "default"
    /\ last.slot = "q"
    /\ Live("p")
    /\ ViewAt("p", 1) # 0

C4_SizeBoundary ==
    /\ (pc # "idle" /\ frame.T.size = Size) =>
          /\ pc # "panicked"
          /\ frame.err = "none"
    /\ (last.op = "copy" /\ last.val.type.size = Size) =>
          \A i \in 1..Size : ViewAt(last.slot, i) = ValueByte(last.val, endian, i)
    /\ (pc # "idle" /\ frame.T.size = Size + 1) =>
          /\ pc = "panicked"
          /\ frame.err = "SizeExceeded"
          /\ frame.pages = <<>>
    /\ last.op = "copy" => last.val.type.size # Size + 1

C4_Witness ==
    /\ last.op = "copy"
    /\ last.val.type = PageBytes
    /\ ViewAt(last.slot, Size) # 0

\* C5: copy fails only on one of its three preconditions: for a T that
\* meets all three, zero-sized T included, copy(v) does not fail.
C5_OnlyPreconditionsFail ==
    pc = "panicked" => ~Preconditions(frame.T)

\* C6: when copy fails on one of its three preconditions, nothing has been
\* written: the local page was never created, no Page is returned and no
\* Page of the caller has changed.
C6_FailBeforeWrite ==
    [][(pc' = "panicked" /\ frame'.err \in PreconditionFailures) =>
          /\ frame.pages = <<>>
          /\ frame'.pages = <<>>
          /\ loc' = loc
          /\ mem' = mem]_vars

C6_Witness ==
    /\ pc = "panicked"
    /\ frame.err = "AlignmentExceeded"
    /\ Live("p")
    /\ ViewAt("p", 1) # 0

\* C7 as stated: copy with a type whose alignment is 8192 fails on the
\* alignment_of(Page) >= alignment_of(T) check, before any write.
C7_AlignmentExceededAsStated ==
    (pc # "idle" /\ frame.T.align = 2 * PageAlign) =>
        /\ pc = "panicked"
        /\ frame.err = "AlignmentExceeded"
        /\ frame.pages = <<>>

\* C7 amended: copy with a type whose alignment is 8192 fails before any
\* write; the check that fails is the size check when the type has a size
\* other than zero, and the alignment check when it is zero-sized.
C7_OverAlignedFails ==
    (pc # "idle" /\ frame.T.align = 2 * PageAlign) =>
        /\ pc = "panicked"
        /\ frame.err = IF frame.T.size = 0 THEN "AlignmentExceeded" ELSE "SizeExceeded"
        /\ frame.pages = <<>>

C7_Witness ==
    /\ pc = "panicked"
    /\ frame.T = OverAlignedZst
    /\ frame.err = "AlignmentExceeded"

\* C8: no two Page variables share storage, and a write through the mutable
\* byte view of one Page leaves every byte of every other Page unchanged, a
\* value copy of the first included.
C8_ValueCopyIndependence ==
    /\ [](\A s \in Slots, t \in Slots : (s # t /\ Live(s) /\ Live(t)) => loc[s] # loc[t])
    /\ [][IsWriteStep =>
             \A t \in Slots \ {last'.slot} : Live(t) =>
                 \A i \in 1..Size : ViewAt(t, i)' = ViewAt(t, i)]_vars

C8_Witness ==
    /\ origin["q"] = "p"
    /\ last.op = "write"
    /\ last.slot = "p"
    /\ ViewAt("p", last.idx + 1) # ViewAt("q", last.idx + 1)
    /\ \A i \in 1..4 : ViewAt("q", i) = ToNeBytes(DeadBeef, endian)[i]

\* C9: after byte b is written at index i through as_mut, as_ref reads b at
\* i and reads every other index as before the write.
C9_WriteThrough ==
    [][\A s \in Slots : (IsWriteStep /\ last'.slot = s) =>
          \A j \in 0..(Size - 1) :
              ViewAt(s, j + 1)' = IF j = last'.idx THEN last'.byte ELSE ViewAt(s, j + 1)]_vars

C9_Witness ==
    /\ last.op = "write"
    /\ writes = 2
    /\ last.idx = Size - 1
    /\ ViewAt(last.slot, Size) = last.byte
    /\ ViewAt(last.slot, 1) = 165
    /\ ViewAt(last.slot, 2) # 0

\* C10: the third assertion of copy never is the one that fails: a type that
\* passes the size and the alignment bound has an alignment that divides the
\* alignment of Page.
C10_DivisibilityNeverFails ==
    /\ frame.err # "AlignmentNotDivisible"
    /\ pc # "idle" =>
          ((frame.T.size <= SizeOfPage /\ frame.T.align <= AlignOfPage)
               => AlignOfPage % frame.T.align = 0)

C10_Witness ==
    /\ pc = "checked"
    /\ frame.T = PageAligned
    /\ frame.err = "none"

====
